---- MODULE Spec2Model ----
(***************************************************************************)
(* Model of "Selenium Web Scraping Demo.py": the scrape-and-merge          *)
(* pipeline (cells In[3], In[7], In[8], In[9], In[10], In[13], In[14]).    *)
(* The cells are taken as one sequential program: an exception that no     *)
(* handler catches ends the run.                                           *)
(*                                                                         *)
(* A Python str is a sequence of one-character strings.  The browser       *)
(* session is the environment: every session operation either succeeds or  *)
(* raises, and a cell read yields any of the texts the page may show.      *)
(***************************************************************************)
EXTENDS Integers, Sequences, FiniteSets, TLC

\* ---------------------------------------------------------------- bounds
MaxTickers == 2     \* rows of the input file
MaxCols == 6        \* columns of the input file (first one is the index)

\* ------------------------------------------------------- program constants
\* df.insert(4, "Monthly", ...) and df.insert(5, "YTD", ...)
MonthlyLoc == 4
YtdLoc == 5

SearchPrefix == "https://www.morningstar.com/search/us-securities?query="

LINK == "//*[@id=\"__layout\"]/div/div/div[2]/div[3]/main/div/div/div[1]/section/div[1]/a"
ETF_TAB == "//*[@id=\"etf__tab-performance\"]/a/span"
MONTHLY == "//*[@id=\"monthly\"]"
ETF_ONE_MO == "//*[@id=\"__layout\"]/div/div/div[2]/div[3]/div/div[2]/main/div/div/div[1]/section/sal-components/div/sal-components-funds-performance/div/div[1]/div/div/div/div[2]/div[1]/section[2]/div/div/div/div/div[2]/div[1]/div/table/tbody/tr[1]/td[2]"
ETF_YTD == "//*[@id=\"__layout\"]/div/div/div[2]/div[3]/div/div[2]/main/div/div/div[1]/section/sal-components/div/sal-components-funds-performance/div/div[1]/div/div/div/div[2]/div[1]/section[2]/div/div/div/div/div[2]/div[1]/div/table/tbody/tr[1]/td[5]"
FUND_TAB == "//*[@id=\"performance\"]/a/span"
FUND_ONE_MO == "/html/body/div[2]/div/div/div/div[2]/div[3]/div/div[2]/main/div/div/div[1]/section/sal-components/div/sal-components-funds-performance/div/div[1]/div/div/div/div[2]/div[1]/section[2]/div/div/div/div/div[2]/div[1]/div/table/tbody/tr[1]/td[2]"
FUND_YTD == "/html/body/div[2]/div/div/div/div[2]/div[3]/div/div[2]/main/div/div/div[1]/section/sal-components/div/sal-components-funds-performance/div/div[1]/div/div/div/div[2]/div[1]/section[2]/div/div/div/div/div[2]/div[1]/div/table/tbody/tr[1]/td[5]"

\* ------------------------------------------------------------ Python values
None == <<"None">>              \* what a function without return yields
Unbound == <<"<unbound>">>      \* a local name not yet assigned
\* updated_stonksdata.csv does not exist
NoFile == [header |-> <<"<no file>">>, rows |-> <<>>]
\* df not yet assigned
NoFrame == [index |-> <<>>, columns |-> <<"<no frame>">>, data |-> <<>>]

UpperChars == <<"A", "B", "C", "D", "E", "F", "G", "H", "I", "J", "K", "L", "M",
                "N", "O", "P", "Q", "R", "S", "T", "U", "V", "W", "X", "Y", "Z">>
LowerChars == <<"a", "b", "c", "d", "e", "f", "g", "h", "i", "j", "k", "l", "m",
                "n", "o", "p", "q", "r", "s", "t", "u", "v", "w", "x", "y", "z">>

\* str.lower() on one character
LowerChar(c) ==
    IF \E k \in 1..Len(UpperChars) : UpperChars[k] = c
    THEN LowerChars[CHOOSE k \in 1..Len(UpperChars) : UpperChars[k] = c]
    ELSE c

\* str.lower()
Lower(s) == [k \in 1..Len(s) |-> LowerChar(s[k])]

\* variant: the ticker is appended as typed, without .lower()
SearchUrlAsTyped(ticker_name) == <<SearchPrefix>> \o ticker_name

\* the url built on line 147
SearchUrl(ticker_name) == <<SearchPrefix>> \o Lower(ticker_name)

\* ------------------------------------------------------------ input domain
\* two tickers that differ only in letter case
TickerPool == { <<"S", "P", "Y">>, <<"s", "p", "y">> }

DigitChar == <<"1", "2", "3", "4", "5", "6", "7", "8", "9">>

\* the texts a return cell may show
Texts == { <<"1", ".", "2", "3">>, <<"0", ".", "9", "8">> }

ColumnNames == <<"Unnamed: 0", "Ticker", "Name", "Category", "Price",
                 "Rating", "Expense", "Assets", "Yield", "Risk">>

\* header of an input file of n columns; clash: its last column is already
\* called "Monthly"
HeaderOf(n, clash) ==
    [c \in 1..n |-> IF clash /\ c = n /\ c > 2 THEN "Monthly" ELSE ColumnNames[c]]

\* the cell of row r, column c of the input file
CellOf(r, c, tickers) ==
    IF c = 2 THEN tickers[r] ELSE <<"r", DigitChar[r], "c", DigitChar[c]>>

FileOf(n, clash, tickers) ==
    [header |-> HeaderOf(n, clash),
     rows |-> [r \in 1..Len(tickers) |-> [c \in 1..n |-> CellOf(r, c, tickers)]]]

TickerLists == UNION { [1..n -> TickerPool] : n \in 0..MaxTickers }

\* column counts of the input file: the DataFrame has too few columns for
\* df.insert(4, ...), exactly 4, or more
ColumnCounts == {2, MonthlyLoc + 1, MaxCols}

InputFiles ==
    { FileOf(n, clash, t) : n \in ColumnCounts, clash \in BOOLEAN, t \in TickerLists }

\* ------------------------------------------------------------------ pandas
\* list.insert at 0-based position loc
InsertAt(s, loc, x) == SubSeq(s, 1, loc) \o <<x>> \o SubSeq(s, loc + 1, Len(s))

\* pd.read_csv(path, index_col=0): the first column becomes the row index
read_csv(file) ==
    [index |-> [r \in 1..Len(file.rows) |-> file.rows[r][1]],
     columns |-> Tail(file.header),
     data |-> [r \in 1..Len(file.rows) |-> Tail(file.rows[r])]]

\* whether DataFrame.insert(loc, column, value) raises
InsertRaises(frame, loc, column, value) ==
    \/ loc < 0 \/ loc > Len(frame.columns)
    \/ \E c \in 1..Len(frame.columns) : frame.columns[c] = column
    \/ Len(value) # Len(frame.data)

\* variant: the column is added at the end (df[column] = value), not at loc
InsertColumnAtEnd(frame, loc, column, value) ==
    [index |-> frame.index,
     columns |-> Append(frame.columns, column),
     data |-> [r \in 1..Len(frame.data) |-> Append(frame.data[r], value[r])]]

\* DataFrame.insert(loc, column, value), when it does not raise
InsertColumn(frame, loc, column, value) ==
    [index |-> frame.index,
     columns |-> InsertAt(frame.columns, loc, column),
     data |-> [r \in 1..Len(frame.data) |-> InsertAt(frame.data[r], loc, value[r])]]

\* variant: to_csv without index=False writes the row index as first column
to_csv_with_index(frame) ==
    [header |-> <<"index">> \o frame.columns,
     rows |-> [r \in 1..Len(frame.data) |-> <<frame.index[r]>> \o frame.data[r]]]

\* df.to_csv(path, index=False): the row index is not written
to_csv(frame) == [header |-> frame.columns, rows |-> frame.data]

\* df[["Ticker"]].Ticker.values.tolist()
TickerColumn(frame) ==
    LET c == CHOOSE c \in 1..Len(frame.columns) : frame.columns[c] = "Ticker"
    IN  [r \in 1..Len(frame.data) |-> frame.data[r][c]]

\* ------------------------------------------------------------------- state
VARIABLES
    pc,            \* line of the program about to run, "done" or "raised"
    file_in,       \* demo_stock_data.csv
    file_out,      \* updated_stonksdata.csv, NoFile until written
    writes,        \* number of times updated_stonksdata.csv was written
    df,            \* the DataFrame
    df_tickers,    \* the ticker list of In[8]
    one_mo_vals,   \* List for Monthly returns
    ytd_vals,      \* List for YTD returns
    i,             \* number of tickers the for loop has taken
    ticker_name,   \* scraper's parameter
    url,           \* scraper's local url
    one_mo,        \* scraper's local one_mo
    ytd,           \* scraper's local ytd
    branch,        \* "pre", "try" or "except": where the call is
    ret,           \* what the last completed scraper call returned
    session_url,   \* the URL the browser session last loaded
    log,           \* session operations of the current scraper call
    calls,         \* tickers scraper has been called with, in call order
    scraped,       \* per successful call, the last texts the session gave
    raised_at      \* line whose exception ended the run

vars == <<pc, file_in, file_out, writes, df, df_tickers, one_mo_vals, ytd_vals,
          i, ticker_name, url, one_mo, ytd, branch, ret, session_url, log,
          calls, scraped, raised_at>>

tableVars == <<file_in, file_out, writes, df, df_tickers>>
listVars == <<one_mo_vals, ytd_vals>>
callVars == <<i, ticker_name, calls, scraped, ret>>
localVars == <<url, one_mo, ytd>>

Init ==
    /\ pc = "L54"
    /\ file_in \in InputFiles
    /\ file_out = NoFile
    /\ writes = 0
    /\ df = NoFrame
    /\ df_tickers = <<>>
    /\ one_mo_vals = Unbound
    /\ ytd_vals = Unbound
    /\ i = 0
    /\ ticker_name = Unbound
    /\ url = Unbound
    /\ one_mo = Unbound
    /\ ytd = Unbound
    /\ branch = "pre"
    /\ ret = Unbound
    /\ session_url = Unbound
    /\ log = <<>>
    /\ calls = <<>>
    /\ scraped = <<>>
    /\ raised_at = "none"

\* ------------------------------------------------------- the session's log
Entry(op, loc, ok, text) ==
    [op |-> op, loc |-> loc, ok |-> ok, text |-> text, branch |-> branch]

\* the texts the session gave, in this call, for the cells in locs
TextsRead(locs) ==
    SelectSeq(log, LAMBDA e : e.op = "text" /\ e.ok /\ e.loc \in locs)

\* the last text the session gave for a cell in locs
LastText(locs) ==
    IF TextsRead(locs) = <<>> THEN Unbound
    ELSE TextsRead(locs)[Len(TextsRead(locs))].text

OneMoCells == {ETF_ONE_MO, FUND_ONE_MO}
YtdCells == {ETF_YTD, FUND_YTD}

\* variant: the handler is "except NoSuchElementException", which a failed
\* click or wait does not raise
HandlerLookupsOnly(line) ==
    IF line \in {"L180", "L186", "L193", "L194"} THEN "L195" ELSE "raised"

\* variant: the call is wrapped so that a failed ticker is skipped
HandlerSkipsTicker(line) ==
    IF line \in {"L180", "L181", "L182", "L186", "L188", "L189", "L193", "L194"}
    THEN "L195"
    ELSE "L222"

\* variant: the try block starts at the top of the function body
HandlerWholeBody(line) ==
    IF line \in {"L148", "L154", "L156", "L163",
                 "L180", "L181", "L182", "L186", "L188", "L189", "L193", "L194"}
    THEN "L195"
    ELSE "raised"

\* where an exception raised at a line goes: inside the try block to the
\* except clause (line 195), anywhere else out of the program
Handler(line) ==
    IF line \in {"L180", "L181", "L182", "L186", "L188", "L189", "L193", "L194"}
    THEN "L195"
    ELSE "raised"

Raise(line) ==
    /\ pc' = Handler(line)
    /\ raised_at' = IF Handler(line) = "raised" THEN line ELSE raised_at

\* a session operation at a line that yields nothing the program keeps:
\* driver.find_element(...), element.click(), driver.implicitly_wait(5)
SessionOp(line, op, loc, next) ==
    /\ pc = line
    /\ \/ /\ log' = Append(log, Entry(op, loc, TRUE, <<>>))
          /\ pc' = next
          /\ UNCHANGED raised_at
       \/ /\ log' = Append(log, Entry(op, loc, FALSE, <<>>))
          /\ Raise(line)
    /\ UNCHANGED <<tableVars, listVars, callVars, localVars, branch, session_url>>

\* driver.find_element(By.XPATH, loc).text at a line; the text on success
ReadCell(line, loc, next, text) ==
    /\ pc = line
    /\ \/ /\ log' = Append(log, Entry("text", loc, TRUE, text))
          /\ pc' = next
          /\ UNCHANGED raised_at
       \/ /\ log' = Append(log, Entry("text", loc, FALSE, <<>>))
          /\ Raise(line)

\* ------------------------------------------------------------ In[3]..In[8]
\* line 54: df = pd.read_csv('demo_stock_data.csv', index_col=0)
ReadCsv ==
    /\ pc = "L54"
    /\ df' = read_csv(file_in)
    /\ pc' = "L112"
    /\ UNCHANGED <<file_in, file_out, writes, df_tickers, listVars, callVars,
                   localVars, branch, session_url, log, raised_at>>

\* lines 112-113: one_mo_vals = [] ; ytd_vals = []
InitLists ==
    /\ pc = "L112"
    /\ one_mo_vals' = <<>>
    /\ ytd_vals' = <<>>
    /\ pc' = "L133"
    /\ UNCHANGED <<tableVars, callVars, localVars, branch, session_url, log,
                   raised_at>>

\* line 133: df_tickers = df[["Ticker"]].Ticker.values.tolist()
GetTickers ==
    /\ pc = "L133"
    /\ df_tickers' = TickerColumn(df)
    /\ pc' = "L222"
    /\ UNCHANGED <<file_in, file_out, writes, df, listVars, callVars, localVars,
                   branch, session_url, log, raised_at>>

\* ------------------------------------------------------------------ In[10]
\* variant: the loop steps over every other ticker
NextIndexSkips(k) == k + 2

\* the position the for loop takes next
NextIndex(k) == k + 1

\* lines 222-223: for ticker in df_tickers: scraper(ticker)
ForNext ==
    /\ pc = "L222"
    /\ i < Len(df_tickers)
    /\ i' = NextIndex(i)
    /\ ticker_name' = df_tickers[i + 1]
    /\ calls' = Append(calls, df_tickers[i + 1])
    /\ url' = Unbound
    /\ one_mo' = Unbound
    /\ ytd' = Unbound
    /\ branch' = "pre"
    /\ log' = <<>>
    /\ pc' = "L147"
    /\ UNCHANGED <<tableVars, listVars, scraped, ret, session_url, raised_at>>

\* line 222, list exhausted: on to In[13]
ForEnd ==
    /\ pc = "L222"
    /\ i >= Len(df_tickers)
    /\ pc' = "L243"
    /\ UNCHANGED <<tableVars, listVars, callVars, localVars, branch,
                   session_url, log, raised_at>>

\* ------------------------------------------------------------ In[9] scraper
\* line 147: url = "https://...query=" + str(ticker_name).lower()
BuildUrl ==
    /\ pc = "L147"
    /\ url' = SearchUrl(ticker_name)
    /\ pc' = "L148"
    /\ UNCHANGED <<tableVars, listVars, callVars, one_mo, ytd, branch,
                   session_url, log, raised_at>>

\* line 148: driver.get(url)
DriverGet ==
    /\ pc = "L148"
    /\ \/ /\ log' = Append(log, Entry("get", "", TRUE, <<>>))
          /\ session_url' = url
          /\ pc' = "L154"
          /\ UNCHANGED raised_at
       \/ /\ log' = Append(log, Entry("get", "", FALSE, <<>>))
          /\ Raise("L148")
          /\ UNCHANGED session_url
    /\ UNCHANGED <<tableVars, listVars, callVars, localVars, branch>>

\* line 154: link = driver.find_element(By.XPATH, LINK)
FindLink == SessionOp("L154", "find", LINK, "L156")

\* line 156: link.click()
ClickLink == SessionOp("L156", "click", LINK, "L163")

\* line 163: driver.implicitly_wait(5)
WaitLink == SessionOp("L163", "wait", "", "L176")

\* line 176: try:
EnterTry ==
    /\ pc = "L176"
    /\ branch' = "try"
    /\ pc' = "L180"
    /\ UNCHANGED <<tableVars, listVars, callVars, localVars, session_url, log,
                   raised_at>>

\* lines 180-189: the ETF layout's tab and toggle
EtfFindTab == SessionOp("L180", "find", ETF_TAB, "L181")
EtfClickTab == SessionOp("L181", "click", ETF_TAB, "L182")
EtfWaitTab == SessionOp("L182", "wait", "", "L186")
EtfFindMonthly == SessionOp("L186", "find", MONTHLY, "L188")
EtfClickMonthly == SessionOp("L188", "click", MONTHLY, "L189")
EtfWaitMonthly == SessionOp("L189", "wait", "", "L193")

\* line 193: one_mo = driver.find_element(By.XPATH, ETF_ONE_MO).text
EtfOneMo ==
    \E text \in Texts :
        /\ ReadCell("L193", ETF_ONE_MO, "L194", text)
        /\ one_mo' = IF pc' = "L194" THEN text ELSE one_mo
        /\ UNCHANGED <<tableVars, listVars, callVars, url, ytd, branch,
                       session_url>>

\* variant: the fund-layout code is not under except and runs after the try
AfterTryFallsThrough == "L198"

\* where control goes when the try block completes: past the except clause
AfterTry == "L210"

\* line 194: ytd = driver.find_element(By.XPATH, ETF_YTD).text
EtfYtd ==
    \E text \in Texts :
        /\ ReadCell("L194", ETF_YTD, AfterTry, text)
        /\ ytd' = IF pc' = "L210" THEN text ELSE ytd
        /\ UNCHANGED <<tableVars, listVars, callVars, url, one_mo, branch,
                       session_url>>

\* line 195: except:
Except ==
    /\ pc = "L195"
    /\ branch' = "except"
    /\ pc' = "L198"
    /\ UNCHANGED <<tableVars, listVars, callVars, localVars, session_url, log,
                   raised_at>>

\* lines 198-204: the fund layout's tab and toggle
FundFindTab == SessionOp("L198", "find", FUND_TAB, "L199")
FundClickTab == SessionOp("L199", "click", FUND_TAB, "L200")
FundWaitTab == SessionOp("L200", "wait", "", "L202")
FundFindMonthly == SessionOp("L202", "find", MONTHLY, "L203")
FundClickMonthly == SessionOp("L203", "click", MONTHLY, "L204")
FundWaitMonthly == SessionOp("L204", "wait", "", "L206")

\* line 206: one_mo = driver.find_element(By.XPATH, FUND_ONE_MO).text
FundOneMo ==
    \E text \in Texts :
        /\ ReadCell("L206", FUND_ONE_MO, "L207", text)
        /\ one_mo' = IF pc' = "L207" THEN text ELSE one_mo
        /\ UNCHANGED <<tableVars, listVars, callVars, url, ytd, branch,
                       session_url>>

\* line 207: ytd = driver.find_element(By.XPATH, FUND_YTD).text
FundYtd ==
    \E text \in Texts :
        /\ ReadCell("L207", FUND_YTD, "L210", text)
        /\ ytd' = IF pc' = "L210" THEN text ELSE ytd
        /\ UNCHANGED <<tableVars, listVars, callVars, url, one_mo, branch,
                       session_url>>

\* line 210: one_mo_vals.append(one_mo)
AppendOneMo ==
    /\ pc = "L210"
    /\ one_mo_vals' = Append(one_mo_vals, one_mo)
    /\ pc' = "L211"
    /\ UNCHANGED <<tableVars, ytd_vals, callVars, localVars, branch,
                   session_url, log, raised_at>>

\* variant: line 211 appends to one_mo_vals again
AppendYtdToOneMo ==
    /\ pc = "L211"
    /\ one_mo_vals' = Append(one_mo_vals, ytd)
    /\ pc' = "L212"
    /\ UNCHANGED <<tableVars, ytd_vals, callVars, localVars, branch,
                   session_url, log, raised_at>>

\* line 211: ytd_vals.append(ytd)
AppendYtd ==
    /\ pc = "L211"
    /\ ytd_vals' = Append(ytd_vals, ytd)
    /\ pc' = "L212"
    /\ UNCHANGED <<tableVars, one_mo_vals, callVars, localVars, branch,
                   session_url, log, raised_at>>

\* variant: the function ends with "return one_mo, ytd"
ReturnValuePair == <<one_mo, ytd>>

\* what scraper hands back: the function body has no return statement
ReturnValue == None

\* end of the function body: control goes back to the for loop
Return ==
    /\ pc = "L212"
    /\ ret' = ReturnValue
    /\ scraped' = Append(scraped, <<LastText(OneMoCells), LastText(YtdCells)>>)
    /\ pc' = "L222"
    /\ UNCHANGED <<tableVars, listVars, i, ticker_name, calls, localVars,
                   branch, session_url, log, raised_at>>

\* ----------------------------------------------------------- In[13], In[14]
\* line 243: df.insert(4, "Monthly", one_mo_vals)
InsertMonthly ==
    /\ pc = "L243"
    /\ IF InsertRaises(df, MonthlyLoc, "Monthly", one_mo_vals)
       THEN /\ pc' = "raised"
            /\ raised_at' = "L243"
            /\ UNCHANGED df
       ELSE /\ df' = InsertColumn(df, MonthlyLoc, "Monthly", one_mo_vals)
            /\ pc' = "L244"
            /\ UNCHANGED raised_at
    /\ UNCHANGED <<file_in, file_out, writes, df_tickers, listVars, callVars,
                   localVars, branch, session_url, log>>

\* line 244: df.insert(5, "YTD", ytd_vals)
InsertYtd ==
    /\ pc = "L244"
    /\ IF InsertRaises(df, YtdLoc, "YTD", ytd_vals)
       THEN /\ pc' = "raised"
            /\ raised_at' = "L244"
            /\ UNCHANGED df
       ELSE /\ df' = InsertColumn(df, YtdLoc, "YTD", ytd_vals)
            /\ pc' = "L251"
            /\ UNCHANGED raised_at
    /\ UNCHANGED <<file_in, file_out, writes, df_tickers, listVars, callVars,
                   localVars, branch, session_url, log>>

\* line 251: df.to_csv('updated_stonksdata.csv', index=False, encoding='utf-8')
ToCsv ==
    /\ pc = "L251"
    /\ file_out' = to_csv(df)
    /\ writes' = writes + 1
    /\ pc' = "done"
    /\ UNCHANGED <<file_in, df, df_tickers, listVars, callVars, localVars,
                   branch, session_url, log, raised_at>>

Next ==
    \/ ReadCsv \/ InitLists \/ GetTickers
    \/ ForNext \/ ForEnd
    \/ BuildUrl \/ DriverGet \/ FindLink \/ ClickLink \/ WaitLink
    \/ EnterTry
    \/ EtfFindTab \/ EtfClickTab \/ EtfWaitTab
    \/ EtfFindMonthly \/ EtfClickMonthly \/ EtfWaitMonthly
    \/ EtfOneMo \/ EtfYtd
    \/ Except
    \/ FundFindTab \/ FundClickTab \/ FundWaitTab
    \/ FundFindMonthly \/ FundClickMonthly \/ FundWaitMonthly
    \/ FundOneMo \/ FundYtd
    \/ AppendOneMo \/ AppendYtd \/ Return
    \/ InsertMonthly \/ InsertYtd \/ ToCsv

Spec == Init /\ [][Next]_vars

\* ================================================================== claims
Last(s) == s[Len(s)]

ScraperLines ==
    {"L147", "L148", "L154", "L156", "L163", "L176", "L180", "L181", "L182",
     "L186", "L188", "L189", "L193", "L194", "L195", "L198", "L199", "L200",
     "L202", "L203", "L204", "L206", "L207", "L210", "L211", "L212"}

\* the for loop ran to its end: every ticker was scraped successfully
LoopCompleted ==
    \/ pc \in {"L243", "L244", "L251", "done"}
    \/ pc = "raised" /\ raised_at \in {"L243", "L244"}

\* the program has stopped, one way or the other
Ended == pc \in {"done", "raised"}

\* the DataFrame as loaded, before the merge
Loaded == read_csv(file_in)

\* s without the elements at 1-based positions p and q (p < q)
Without(s, p, q) == SubSeq(s, 1, p - 1) \o SubSeq(s, p + 1, q - 1) \o SubSeq(s, q + 1, Len(s))

\* the table t (columns, data) is the loaded table plus Monthly and YTD at
\* 0-based positions 4 and 5, row r holding the texts of the r-th scrape
MergedTable(columns, data) ==
    /\ Len(data) = Len(file_in.rows)
    /\ Len(columns) = Len(Loaded.columns) + 2
    /\ columns[5] = "Monthly"
    /\ columns[6] = "YTD"
    /\ Without(columns, 5, 6) = Loaded.columns
    /\ \A r \in 1..Len(data) :
          /\ Len(data[r]) = Len(columns)
          /\ Without(data[r], 5, 6) = Loaded.data[r]
          /\ calls[r] = file_in.rows[r][2]
          /\ data[r][5] = scraped[r][1]
          /\ data[r][6] = scraped[r][2]

\* the loaded table has room at position 4 and no column of the new names
Mergeable ==
    /\ Len(Loaded.columns) >= 4
    /\ \A c \in 1..Len(Loaded.columns) : Loaded.columns[c] \notin {"Monthly", "YTD"}

\* C1 as stated: whenever every ticker's scrape has succeeded and the program
\* has stopped, the table has N rows, exactly two more columns (Monthly, YTD)
\* and row r holds the two texts scraped for the ticker of row r.
C1_AnyTableMerged ==
    (Ended /\ LoopCompleted) => (pc = "done" /\ MergedTable(df.columns, df.data))

\* C1 amended: the same, for input tables whose DataFrame (the file's columns
\* after the first) has at least 4 columns, none named Monthly or YTD; for
\* the other tables df.insert raises and the program stops without a merge.
C1_MergeableTableMerged ==
    (Ended /\ LoopCompleted) =>
        IF Mergeable
        THEN pc = "done" /\ MergedTable(df.columns, df.data)
        ELSE pc = "raised" /\ file_out = NoFile

C1_Witness ==
    /\ pc = "done"
    /\ Len(df.data) = 2
    /\ df.data[1][5] # df.data[2][5]
    /\ df.data[1][5] # df.data[1][6]
    /\ Len(df.columns) > 6

\* C6 as stated: the written file holds every column and every row of the
\* input file, values unchanged, rows and original columns in order, plus the
\* two new columns, and is written exactly once after all tickers are scraped.
C6_EveryInputColumnKept ==
    file_out # NoFile =>
        /\ writes = 1
        /\ Len(scraped) = Len(df_tickers)
        /\ Len(file_out.header) = Len(file_in.header) + 2
        /\ \E p, q \in 1..Len(file_out.header) :
              /\ p < q
              /\ Without(file_out.header, p, q) = file_in.header
              /\ Len(file_out.rows) = Len(file_in.rows)
              /\ \A r \in 1..Len(file_in.rows) :
                    Without(file_out.rows[r], p, q) = file_in.rows[r]

\* C6 amended: the written file holds every column of the input file except
\* the first (read as the row index, not written back) and every row, values
\* unchanged and in order, with Monthly and YTD as its 5th and 6th columns;
\* the file is written at most once, and only after all tickers are scraped.
C6_AllButIndexColumnKept ==
    /\ writes <= 1
    /\ (writes = 0) = (file_out = NoFile)
    /\ pc = "done" => writes = 1
    /\ file_out # NoFile =>
        /\ pc = "done"
        /\ Len(scraped) = Len(df_tickers)
        /\ Len(df_tickers) = Len(file_in.rows)
        /\ Len(file_out.header) = Len(file_in.header) + 1
        /\ file_out.header[5] = "Monthly"
        /\ file_out.header[6] = "YTD"
        /\ Without(file_out.header, 5, 6) = Tail(file_in.header)
        /\ Len(file_out.rows) = Len(file_in.rows)
        /\ \A r \in 1..Len(file_in.rows) :
              Without(file_out.rows[r], 5, 6) = Tail(file_in.rows[r])

C6_Witness ==
    /\ file_out # NoFile
    /\ Len(file_out.rows) = 2
    /\ Len(file_out.header) > 6

\* ------------------------------------------------------ the scraper's paths
FundOnly == {FUND_TAB, FUND_ONE_MO, FUND_YTD}

\* the session operations of the current call made in branch b
LogOf(b) == SelectSeq(log, LAMBDA e : e.branch = b)

FailedIn(b) == \E k \in 1..Len(log) : log[k].branch = b /\ ~log[k].ok

\* the fund-layout path, step by step
FundSteps ==
    << <<"find", FUND_TAB>>, <<"click", FUND_TAB>>, <<"wait", "">>,
       <<"find", MONTHLY>>, <<"click", MONTHLY>>, <<"wait", "">>,
       <<"text", FUND_ONE_MO>>, <<"text", FUND_YTD>> >>

\* both appends of the last call are done
Recorded ==
    \/ pc \in {"L212", "L222", "L243", "L244", "L251", "done"}
    \/ pc = "raised" /\ raised_at \in {"L243", "L244"}

\* the current (or last) call completed through the except clause
FellBackAndSucceeded ==
    /\ Len(LogOf("except")) = Len(FundSteps)
    /\ Last(LogOf("except")).ok

\* C2: a failure at any step of the try block (ETF layout) takes the call to
\* the except clause, whose session operations are the fund-layout path from
\* its first step on, through the fund locators; when it succeeds, both values
\* kept and recorded are the texts read at FUND_ONE_MO and FUND_YTD.
C2_FallbackRunsFundPath ==
    LET fund == LogOf("except")
    IN  /\ FailedIn("try") => (pc = "L195" \/ branch = "except")
        /\ Len(fund) <= Len(FundSteps)
        /\ \A k \in 1..Len(fund) :
              /\ <<fund[k].op, fund[k].loc>> = FundSteps[k]
              /\ k < Len(fund) => fund[k].ok
        /\ (branch = "except" /\ pc \in {"L210", "L211"}) => FellBackAndSucceeded
        /\ (branch = "except" /\ Recorded) => FellBackAndSucceeded
        /\ FellBackAndSucceeded =>
              /\ one_mo = fund[7].text
              /\ ytd = fund[8].text
              /\ pc = "L211" => Last(one_mo_vals) = fund[7].text
              /\ Recorded => /\ Last(one_mo_vals) = fund[7].text
                             /\ Last(ytd_vals) = fund[8].text

\* the ETF path read a monthly text, failed on the YTD cell, and the fallback
\* recorded a different monthly text read through the fund locator
C2_Witness ==
    /\ pc = "L212"
    /\ branch = "except"
    /\ LastText({ETF_ONE_MO}) # Unbound
    /\ LastText({ETF_ONE_MO}) # Last(one_mo_vals)

\* every ETF-layout locator of the try block has resolved in this call
AllEtfResolved ==
    /\ \E k \in 1..Len(log) : log[k].ok /\ log[k].op = "find" /\ log[k].loc = ETF_TAB
    /\ \E k \in 1..Len(log) :
          log[k].ok /\ log[k].op = "find" /\ log[k].loc = MONTHLY /\ log[k].branch = "try"
    /\ \E k \in 1..Len(log) : log[k].ok /\ log[k].op = "text" /\ log[k].loc = ETF_ONE_MO
    /\ \E k \in 1..Len(log) : log[k].ok /\ log[k].op = "text" /\ log[k].loc = ETF_YTD

\* C3: a call in which every ETF-layout locator resolved stays on the ETF
\* path: it never enters the except clause, queries no fund-only locator, and
\* keeps and records the two texts read at ETF_ONE_MO and ETF_YTD.
C3_EtfPathOnly ==
    AllEtfResolved =>
        /\ branch = "try"
        /\ pc # "L195"
        /\ \A k \in 1..Len(log) : log[k].loc \notin FundOnly /\ log[k].branch # "except"
        /\ one_mo = LastText({ETF_ONE_MO})
        /\ ytd = LastText({ETF_YTD})
        /\ pc = "L210" \/ pc = "L211" \/ Recorded
        /\ Recorded => /\ Last(one_mo_vals) = LastText({ETF_ONE_MO})
                       /\ Last(ytd_vals) = LastText({ETF_YTD})

C3_Witness ==
    /\ AllEtfResolved
    /\ pc = "L222"
    /\ Last(one_mo_vals) # Last(ytd_vals)

\* ------------------------------------------------------------- the batch
\* the last session operation of the current call raised outside the try
\* block: before the ETF/fund dispatch, or on the fund-layout path
FailedWithoutFallback ==
    /\ log # <<>>
    /\ ~Last(log).ok
    /\ Last(log).branch # "try"

\* C4: once a scrape has failed with no fallback left, the program has
\* stopped for good: nothing runs any more (no later ticker, no merge), the
\* DataFrame is as loaded, and updated_stonksdata.csv was never written,
\* however many tickers were scraped before.
C4_FailureEndsBatch ==
    /\ FailedWithoutFallback =>
          /\ pc = "raised"
          /\ raised_at \in ScraperLines
          /\ ~ENABLED Next
          /\ Len(calls) = i
          /\ df = Loaded
          /\ file_out = NoFile
          /\ writes = 0
    /\ (pc = "raised" /\ raised_at \in ScraperLines) => FailedWithoutFallback

\* the second of two tickers failed after the first was scraped
C4_Witness ==
    /\ FailedWithoutFallback
    /\ Len(df_tickers) = 2
    /\ Len(scraped) = 1
    /\ Len(calls) = 2
    /\ Last(log).branch = "except"

\* a scraper call has returned and the for loop has not yet moved on
JustReturned == pc = "L222" /\ calls # <<>> /\ Len(scraped) = Len(calls)

\* C5 as stated: a call that does not fail returns the pair of the two
\* extracted texts to its caller.
C5_ReturnsPair ==
    JustReturned => ret = <<LastText(OneMoCells), LastText(YtdCells)>>

\* C5 amended: a call that does not fail returns None; the two extracted
\* texts reach the caller as the new last elements of one_mo_vals and
\* ytd_vals.
C5_ReturnsNoneAppendsPair ==
    JustReturned =>
        /\ ret = None
        /\ Len(TextsRead(OneMoCells)) >= 1
        /\ Len(TextsRead(YtdCells)) >= 1
        /\ Last(one_mo_vals) = LastText(OneMoCells)
        /\ Last(ytd_vals) = LastText(YtdCells)

C5_Witness ==
    /\ JustReturned
    /\ Last(one_mo_vals) # Last(ytd_vals)
    /\ Len(TextsRead(OneMoCells)) = 2

\* C7: scraper is called once per ticker, in list order, one call at a time:
\* the calls made are always a prefix of the ticker list, the whole list once
\* the loop has ended, a call begins only after the one before has returned,
\* and after k successful calls both lists have length k, element k holding
\* the texts scraped by the k-th call.
C7_OncePerTickerInOrder ==
    /\ Len(calls) <= Len(df_tickers)
    /\ calls = SubSeq(df_tickers, 1, Len(calls))
    /\ LoopCompleted => calls = df_tickers /\ Len(scraped) = Len(calls)
    /\ pc \in ScraperLines => ticker_name = Last(calls) /\ Len(calls) = Len(scraped) + 1
    /\ pc = "L222" =>
          /\ Len(calls) = Len(scraped)
          /\ Len(one_mo_vals) = Len(scraped)
          /\ Len(ytd_vals) = Len(scraped)
          /\ \A k \in 1..Len(scraped) :
                /\ one_mo_vals[k] = scraped[k][1]
                /\ ytd_vals[k] = scraped[k][2]

C7_Witness ==
    /\ pc = "L222"
    /\ Len(scraped) = 2
    /\ calls[1] # calls[2]
    /\ scraped[1] # scraped[2]

\* ------------------------------------------------- order of the operations
LayoutLocators == {ETF_TAB, FUND_TAB, MONTHLY, ETF_ONE_MO, ETF_YTD, FUND_ONE_MO, FUND_YTD}
TabLocators == {ETF_TAB, FUND_TAB}
CellLocators == {ETF_ONE_MO, ETF_YTD, FUND_ONE_MO, FUND_YTD}

\* a successful operation op on a locator in locs, made in branch b, comes
\* before position k of the log
Before(k, op, locs, b) ==
    \E j \in 1..(k - 1) :
        log[j].ok /\ log[j].op = op /\ log[j].loc \in locs /\ log[j].branch = b

\* c and d are the same letter, whatever their case
SameLetter(c, d) ==
    \/ c = d
    \/ \E k \in 1..Len(UpperChars) : {c, d} = {UpperChars[k], LowerChars[k]}

IsUpper(c) == \E k \in 1..Len(UpperChars) : UpperChars[k] = c

\* C8: in every scraper call the first session operation loads the search
\* prefix followed by the ticker in lower case (SPY and spy load the same
\* URL); the first result link is found and clicked before any tab, toggle or
\* cell is queried; within a layout path the tab is clicked before the toggle
\* is queried and the toggle is clicked before a cell is read.
C8_OperationOrder ==
    /\ log # <<>> => log[1].op = "get"
    /\ (log # <<>> /\ log[1].ok) =>
          /\ session_url[1] = SearchPrefix
          /\ Len(session_url) = Len(ticker_name) + 1
          /\ \A k \in 1..Len(ticker_name) :
                /\ ~IsUpper(session_url[k + 1])
                /\ SameLetter(session_url[k + 1], ticker_name[k])
          /\ ticker_name \in {<<"S", "P", "Y">>, <<"s", "p", "y">>} =>
                session_url = <<SearchPrefix, "s", "p", "y">>
    /\ \A k \in 1..Len(log) :
          /\ log[k].op = "get" => k = 1
          /\ log[k].loc = LINK =>
                /\ log[1].ok
                /\ log[k].op = "click" => Before(k, "find", {LINK}, "pre")
          /\ log[k].loc \in LayoutLocators =>
                /\ Before(k, "click", {LINK}, "pre")
                /\ log[k].branch # "pre"
          /\ (log[k].loc \in TabLocators /\ log[k].op = "click") =>
                Before(k, "find", {log[k].loc}, log[k].branch)
          /\ log[k].loc = MONTHLY =>
                Before(k, "click", TabLocators, log[k].branch)
          /\ (log[k].loc = MONTHLY /\ log[k].op = "click") =>
                Before(k, "find", {MONTHLY}, log[k].branch)
          /\ log[k].loc \in CellLocators =>
                Before(k, "click", {MONTHLY}, log[k].branch)

\* an upper-case ticker went through the fallback and read a fund cell
C8_Witness ==
    /\ ticker_name = <<"S", "P", "Y">>
    /\ session_url = <<SearchPrefix, "s", "p", "y">>
    /\ \E k \in 1..Len(log) : log[k].loc = FUND_YTD /\ log[k].ok
    /\ \E k \in 1..Len(log) : log[k].loc = ETF_ONE_MO /\ log[k].ok

\* C9: the except clause is entered only after a failure inside the try
\* block; a failure of driver.get, of the result link's lookup or click (or
\* of the wait after it) leaves scraper, and the program, with no layout
\* locator queried; a failure on the fund-layout path leaves scraper with
\* nothing tried again; either way the program has stopped.
C9_FallbackOnlyFromTry ==
    /\ (pc = "L195" \/ branch = "except") =>
          /\ FailedIn("try")
          /\ Len(SelectSeq(LogOf("try"), LAMBDA e : ~e.ok)) = 1
    /\ FailedIn("pre") =>
          /\ pc = "raised"
          /\ raised_at \in {"L148", "L154", "L156", "L163"}
          /\ branch = "pre"
          /\ \A k \in 1..Len(log) : log[k].loc \notin LayoutLocators
          /\ ~Last(log).ok
          /\ ~ENABLED Next
    /\ FailedIn("except") =>
          /\ pc = "raised"
          /\ raised_at \in {"L198", "L199", "L200", "L202", "L203", "L204", "L206", "L207"}
          /\ ~Last(log).ok
          /\ Len(SelectSeq(log, LAMBDA e : e.op = "find" /\ e.loc = FUND_TAB)) = 1
          /\ Len(SelectSeq(log, LAMBDA e : e.op = "find" /\ e.loc = ETF_TAB)) = 1
          /\ ~ENABLED Next

\* the result link's click failed in the second call
C9_Witness ==
    /\ pc = "raised"
    /\ raised_at = "L156"
    /\ Len(calls) = 2

\* C10: whenever no scraper call is in progress, one_mo_vals and ytd_vals
\* have the same length, the number of calls that succeeded; a call that
\* fails leaves both as they were after the last success; inside a call the
\* lists differ only between the two appends, when both texts are already
\* extracted.
C10_ListsInStep ==
    LET succeeded == IF pc = "L212" THEN Len(scraped) + 1 ELSE Len(scraped)
    IN  /\ pc \notin {"L54", "L112"} =>
              /\ Len(ytd_vals) = succeeded
              /\ Len(one_mo_vals) = IF pc = "L211" THEN succeeded + 1 ELSE succeeded
        /\ pc = "L211" => one_mo # Unbound /\ ytd # Unbound
        /\ (pc = "raised" /\ raised_at \in ScraperLines) =>
              /\ Len(one_mo_vals) = Len(calls) - 1
              /\ \A k \in 1..Len(scraped) :
                    /\ one_mo_vals[k] = scraped[k][1]
                    /\ ytd_vals[k] = scraped[k][2]

\* the second call failed after reading a monthly text on the ETF path
C10_Witness ==
    /\ pc = "raised"
    /\ raised_at \in ScraperLines
    /\ Len(one_mo_vals) = 1
    /\ one_mo # Unbound
    /\ ytd = Unbound

====
